---- MODULE Spec2Model ----
(***************************************************************************)
(* Model of the command layer of xi-term (src/src/core/cmd.rs): the prompt *)
(* parsers RelativeMove::from_prompt, AbsoluteMove::from_prompt,           *)
(* FindConfig::from_prompt and Command::from_prompt, and the keymap        *)
(* translator Command::from_keymap_entry.                                  *)
(*                                                                         *)
(* A Rust &str / String is a TLA+ string; Len, \o and SubSeq act on it as  *)
(* on a sequence of characters.  All inputs are ASCII, so byte length and  *)
(* character count coincide.  A u64 is the canonical decimal string of its *)
(* value ("0", "42", "18446744073709551615"), since 2^64 does not fit the  *)
(* model checker's integers.                                               *)
(***************************************************************************)
EXTENDS Integers, Sequences, FiniteSets, TLC

VARIABLES call, result, rendered

vars == <<call, result, rendered>>

(***************************************************************************)
(* Bounds of the input enumeration.                                        *)
(***************************************************************************)
\* most tokens that follow the first token of a movement argument
MaxExtra == 3
\* longest argument string handed to the find sub-grammar
MaxLen == 5
\* longest generated remainder of a prompt line
MaxRestLen == 2

(***************************************************************************)
(* Result<Command, ParseCommandError> and Option<T>.                       *)
(***************************************************************************)
Ok(c) == [ok |-> TRUE, cmd |-> c]

Err(e) == [ok |-> FALSE, err |-> e]

None == [some |-> FALSE]

Some(x) == [some |-> TRUE, val |-> x]

UnexpectedArgument == [kind |-> "UnexpectedArgument"]

ExpectedArgument(c) == [kind |-> "ExpectedArgument", cmd |-> c]

TooManyArguments(c, e, f) ==
    [kind |-> "TooManyArguments", cmd |-> c, expected |-> e, found |-> f]

UnknownCommand(s) == [kind |-> "UnknownCommand", command |-> s]

(***************************************************************************)
(* String primitives of the Rust standard library used by the parsers.     *)
(***************************************************************************)
\* the i-th character of s, as a one-character string
CharAt(s, i) == SubSeq(s, i, i)

\* str::find(ch): index of the first occurrence of ch in s, 0 when absent
FindChar(s, ch) ==
    IF \E i \in 1..Len(s) : CharAt(s, i) = ch
    THEN CHOOSE i \in 1..Len(s) :
            /\ CharAt(s, i) = ch
            /\ \A j \in 1..(i - 1) : CharAt(s, j) # ch
    ELSE 0

RECURSIVE SplitWhitespace(_)
\* Split dropping the empty tokens, as str::split_whitespace() does
SplitWhitespace(s) ==
    LET i == FindChar(s, " ")
        head == IF i = 0 THEN s ELSE SubSeq(s, 1, i - 1)
        rest == IF i = 0 THEN <<>> ELSE SplitWhitespace(SubSeq(s, i + 1, Len(s)))
    IN  IF head = "" THEN rest ELSE <<head>> \o rest

\* str::split(' ').collect(): never empty, "" gives <<"">>
RECURSIVE Split(_)
Split(s) ==
    LET i == FindChar(s, " ")
    IN  IF i = 0
        THEN <<s>>
        ELSE <<SubSeq(s, 1, i - 1)>> \o Split(SubSeq(s, i + 1, Len(s)))

\* str::splitn(2, ' ').collect(): one or two parts, cut at the first space
Splitn2(s) ==
    LET i == FindChar(s, " ")
    IN  IF i = 0
        THEN <<s>>
        ELSE <<SubSeq(s, 1, i - 1), SubSeq(s, i + 1, Len(s))>>

(***************************************************************************)
(* RelativeMove::from_prompt                                               *)
(***************************************************************************)
RelativeMove(by, forward, extend) ==
    [variant |-> "RelativeMove", by |-> by, forward |-> forward, extend |-> extend]

\* RelativeMove_from_prompt with extend read from the second token's content
RelativeMove_from_prompt_extend_by_content(args) ==
    LET vals == Split(args)
        extend == Len(vals) = 2 /\ vals[2] \in {"e", "extend"}
    IN  IF Len(vals) = 0 THEN Err(ExpectedArgument("move"))
        ELSE IF Len(vals) > 2 THEN Err(TooManyArguments("move", 2, Len(vals)))
        ELSE IF vals[1] \in {"d", "down"} THEN Ok(RelativeMove("lines", TRUE, extend))
        ELSE IF vals[1] \in {"u", "up"} THEN Ok(RelativeMove("lines", FALSE, extend))
        ELSE IF vals[1] \in {"r", "right"} THEN Ok(RelativeMove("characters", TRUE, extend))
        ELSE IF vals[1] \in {"l", "left"} THEN Ok(RelativeMove("characters", FALSE, extend))
        ELSE IF vals[1] \in {"pd", "page-down"} THEN Ok(RelativeMove("pages", TRUE, extend))
        ELSE IF vals[1] \in {"pu", "page-up"} THEN Ok(RelativeMove("pages", FALSE, extend))
        ELSE Err(UnknownCommand(vals[1]))

RelativeMove_from_prompt(args) ==
    LET vals == Split(args)
        extend == Len(vals) = 2
    IN  IF Len(vals) = 0 THEN Err(ExpectedArgument("move"))
        ELSE IF Len(vals) > 2 THEN Err(TooManyArguments("move", 2, Len(vals)))
        ELSE IF vals[1] \in {"d", "down"} THEN Ok(RelativeMove("lines", TRUE, extend))
        ELSE IF vals[1] \in {"u", "up"} THEN Ok(RelativeMove("lines", FALSE, extend))
        ELSE IF vals[1] \in {"r", "right"} THEN Ok(RelativeMove("characters", TRUE, extend))
        ELSE IF vals[1] \in {"l", "left"} THEN Ok(RelativeMove("characters", FALSE, extend))
        ELSE IF vals[1] \in {"pd", "page-down"} THEN Ok(RelativeMove("pages", TRUE, extend))
        ELSE IF vals[1] \in {"pu", "page-up"} THEN Ok(RelativeMove("pages", FALSE, extend))
        ELSE Err(UnknownCommand(vals[1]))

(***************************************************************************)
(* str::parse::<u64>(): an optional '+', then one or more decimal digits,  *)
(* whose value must not exceed u64::MAX.                                   *)
(***************************************************************************)
Digits == {"0", "1", "2", "3", "4", "5", "6", "7", "8", "9"}

DigitVal(c) ==
    CASE c = "0" -> 0 [] c = "1" -> 1 [] c = "2" -> 2 [] c = "3" -> 3
      [] c = "4" -> 4 [] c = "5" -> 5 [] c = "6" -> 6 [] c = "7" -> 7
      [] c = "8" -> 8 [] c = "9" -> 9

U64Max == "18446744073709551615"

RECURSIVE StripZeros(_)
\* the canonical numeral of a digit string: no leading zero, except "0"
StripZeros(d) ==
    IF Len(d) > 1 /\ CharAt(d, 1) = "0" THEN StripZeros(SubSeq(d, 2, Len(d))) ELSE d

\* a <= b for canonical numerals
NumLeq(a, b) ==
    \/ Len(a) < Len(b)
    \/ /\ Len(a) = Len(b)
       /\ \/ a = b
          \/ \E i \in 1..Len(a) :
                /\ DigitVal(CharAt(a, i)) < DigitVal(CharAt(b, i))
                /\ \A j \in 1..(i - 1) : CharAt(a, j) = CharAt(b, j)

ParseU64(s) ==
    LET d == IF Len(s) > 0 /\ CharAt(s, 1) = "+" THEN SubSeq(s, 2, Len(s)) ELSE s
    IN  IF Len(d) = 0 THEN None
        ELSE IF \E i \in 1..Len(d) : CharAt(d, i) \notin Digits THEN None
        ELSE IF ~NumLeq(StripZeros(d), U64Max) THEN None
        ELSE Some(StripZeros(d))

(***************************************************************************)
(* AbsoluteMove::from_prompt                                               *)
(***************************************************************************)
line(n) == [point |-> "line", n |-> n]

bof == [point |-> "bof"]

eof == [point |-> "eof"]

bol == [point |-> "bol"]

eol == [point |-> "eol"]

brackets == [point |-> "brackets"]

AbsoluteMove(to, extend) ==
    [variant |-> "AbsoluteMove", to |-> to, extend |-> extend]

\* AbsoluteMove_from_prompt with a line-number target honouring extend
AbsoluteMove_from_prompt_line_extends(args) ==
    LET vals == Split(args)
        extend == Len(vals) = 2
        number == ParseU64(vals[1])
    IN  IF Len(vals) = 0 THEN Err(ExpectedArgument("move_to"))
        ELSE IF Len(vals) > 2 THEN Err(TooManyArguments("move_to", 2, Len(vals)))
        ELSE IF vals[1] \in {"bof", "beginning-of-file"} THEN Ok(AbsoluteMove(bof, extend))
        ELSE IF vals[1] \in {"eof", "end-of-file"} THEN Ok(AbsoluteMove(eof, extend))
        ELSE IF vals[1] \in {"bol", "beginning-of-line"} THEN Ok(AbsoluteMove(bol, extend))
        ELSE IF vals[1] \in {"eol", "end-of-line"} THEN Ok(AbsoluteMove(eol, extend))
        ELSE IF ~number.some THEN Err(UnknownCommand(vals[1]))
        ELSE Ok(AbsoluteMove(line(number.val), extend))

\* AbsoluteMove_from_prompt with extend never set
AbsoluteMove_from_prompt_no_extend(args) ==
    LET vals == Split(args)
        number == ParseU64(vals[1])
    IN  IF Len(vals) = 0 THEN Err(ExpectedArgument("move_to"))
        ELSE IF Len(vals) > 2 THEN Err(TooManyArguments("move_to", 2, Len(vals)))
        ELSE IF vals[1] \in {"bof", "beginning-of-file"} THEN Ok(AbsoluteMove(bof, FALSE))
        ELSE IF vals[1] \in {"eof", "end-of-file"} THEN Ok(AbsoluteMove(eof, FALSE))
        ELSE IF vals[1] \in {"bol", "beginning-of-line"} THEN Ok(AbsoluteMove(bol, FALSE))
        ELSE IF vals[1] \in {"eol", "end-of-line"} THEN Ok(AbsoluteMove(eol, FALSE))
        ELSE IF ~number.some THEN Err(UnknownCommand(vals[1]))
        ELSE Ok(AbsoluteMove(line(number.val), FALSE))

AbsoluteMove_from_prompt(args) ==
    LET vals == Split(args)
        extend == Len(vals) = 2
        number == ParseU64(vals[1])
    IN  IF Len(vals) = 0 THEN Err(ExpectedArgument("move_to"))
        ELSE IF Len(vals) > 2 THEN Err(TooManyArguments("move_to", 2, Len(vals)))
        ELSE IF vals[1] \in {"bof", "beginning-of-file"} THEN Ok(AbsoluteMove(bof, extend))
        ELSE IF vals[1] \in {"eof", "end-of-file"} THEN Ok(AbsoluteMove(eof, extend))
        ELSE IF vals[1] \in {"bol", "beginning-of-line"} THEN Ok(AbsoluteMove(bol, extend))
        ELSE IF vals[1] \in {"eol", "end-of-line"} THEN Ok(AbsoluteMove(eol, extend))
        ELSE IF ~number.some THEN Err(UnknownCommand(vals[1]))
        ELSE Ok(AbsoluteMove(line(number.val), FALSE))

(***************************************************************************)
(* FindConfig::from_prompt                                                 *)
(***************************************************************************)
Find(search_term, case_sensitive, regex, whole_words) ==
    [variant |-> "Find", search_term |-> search_term,
     case_sensitive |-> case_sensitive, regex |-> regex,
     whole_words |-> whole_words]

\* the loop over control_chars.chars(): failed, once a character is none of c, r, w
ControlFailed(control_chars) ==
    \E i \in 1..Len(control_chars) : CharAt(control_chars, i) \notin {"c", "r", "w"}

\* shadows[k] after the loop, for a cluster on which it did not fail
Shadow(control_chars, flag) ==
    \E i \in 1..Len(control_chars) : CharAt(control_chars, i) = flag

\* FindConfig_from_prompt with the cluster length tested by < 3
FindConfig_from_prompt_short_cluster(args) ==
    LET argsvec == Splitn2(args)
    IN  IF Len(args) = 0 THEN Err(ExpectedArgument("find"))
        ELSE IF Len(argsvec) = 2 /\ Len(argsvec[1]) < 3 /\ ~ControlFailed(argsvec[1])
        THEN Ok(Find(argsvec[2], Shadow(argsvec[1], "c"), Shadow(argsvec[1], "r"),
                     Shadow(argsvec[1], "w")))
        ELSE Ok(Find(args, FALSE, FALSE, FALSE))

FindConfig_from_prompt(args) ==
    LET argsvec == Splitn2(args)
    IN  IF Len(args) = 0 THEN Err(ExpectedArgument("find"))
        ELSE IF Len(argsvec) = 2 /\ Len(argsvec[1]) <= 3 /\ ~ControlFailed(argsvec[1])
        THEN Ok(Find(argsvec[2], Shadow(argsvec[1], "c"), Shadow(argsvec[1], "r"),
                     Shadow(argsvec[1], "w")))
        ELSE Ok(Find(args, FALSE, FALSE, FALSE))

(***************************************************************************)
(* serde_json::Value, and the decoding serde derives for the payload types *)
(* (serde_json::from_value).  Arrays are modelled up to the empty array,   *)
(* which is too short for every payload type.                              *)
(***************************************************************************)
Null == [t |-> "Null"]

Bool(b) == [t |-> "Bool", b |-> b]

PosInt(n) == [t |-> "Number", kind |-> "PosInt", n |-> n]

NegInt(n) == [t |-> "Number", kind |-> "NegInt", n |-> n]

JString(s) == [t |-> "String", s |-> s]

EmptyArray == [t |-> "Array"]

\* o: a function from the object's keys to their values
Object(o) == [t |-> "Object", o |-> o]

\* Value::get(key): the member of an object, None on anything else
Get(v, key) ==
    IF v.t = "Object" /\ key \in DOMAIN v.o THEN Some(v.o[key]) ELSE None

DeBool(v) == IF v.t = "Bool" THEN Some(v.b) ELSE None

DeU64(v) == IF v.t = "Number" /\ v.kind = "PosInt" THEN Some(v.n) ELSE None

RelativeMoveDistance ==
    {"characters", "lines", "words", "word_ends", "subwords", "subword_ends", "pages"}

\* an enum of unit variants: "name", or {"name": null}
DeRelativeMoveDistance(v) ==
    IF v.t = "String"
    THEN IF v.s \in RelativeMoveDistance THEN Some(v.s) ELSE None
    ELSE IF v.t = "Object" /\ Cardinality(DOMAIN v.o) = 1
    THEN LET k == CHOOSE k \in DOMAIN v.o : TRUE
         IN  IF k \in RelativeMoveDistance /\ v.o[k].t = "Null" THEN Some(k) ELSE None
    ELSE None

\* a field marked #[serde(default)]: false when absent
DeDefaultBool(v, key) ==
    IF Get(v, key).some THEN DeBool(Get(v, key).val) ELSE Some(FALSE)

DeRelativeMove(v) ==
    IF v.t # "Object" \/ ~Get(v, "by").some \/ ~Get(v, "forward").some THEN None
    ELSE LET by == DeRelativeMoveDistance(Get(v, "by").val)
             forward == DeBool(Get(v, "forward").val)
             extend == DeDefaultBool(v, "extend")
         IN  IF by.some /\ forward.some /\ extend.some
             THEN Some(RelativeMove(by.val, forward.val, extend.val))
             ELSE None

UnitPoints == {"bof", "eof", "bol", "eol", "brackets"}

\* unit variants as above; the newtype variant line(u64) only as {"line": n}
DeAbsoluteMovePoint(v) ==
    IF v.t = "String"
    THEN IF v.s \in UnitPoints THEN Some([point |-> v.s]) ELSE None
    ELSE IF v.t = "Object" /\ Cardinality(DOMAIN v.o) = 1
    THEN LET k == CHOOSE k \in DOMAIN v.o : TRUE
         IN  IF k \in UnitPoints /\ v.o[k].t = "Null" THEN Some([point |-> k])
             ELSE IF k = "line" /\ DeU64(v.o[k]).some THEN Some(line(DeU64(v.o[k]).val))
             ELSE None
    ELSE None

DeAbsoluteMove(v) ==
    IF v.t # "Object" \/ ~Get(v, "to").some THEN None
    ELSE LET to == DeAbsoluteMovePoint(Get(v, "to").val)
             extend == DeDefaultBool(v, "extend")
         IN  IF to.some /\ extend.some THEN Some(AbsoluteMove(to.val, extend.val))
             ELSE None

DeExpandLinesDirection(v) ==
    IF v.t # "Object" \/ ~Get(v, "forward").some THEN None
    ELSE LET forward == DeBool(Get(v, "forward").val)
         IN  IF forward.some THEN Some([forward |-> forward.val]) ELSE None

(***************************************************************************)
(* Command::from_keymap_entry                                              *)
(***************************************************************************)
Unit(variant) == [variant |-> variant]

Save(view) == [variant |-> "Save", view |-> view]

Open(file) == [variant |-> "Open", file |-> file]

SetTheme(theme) == [variant |-> "SetTheme", theme |-> theme]

OpenPrompt(mode) == [variant |-> "OpenPrompt", mode |-> mode]

CursorExpandLines(dir) == [variant |-> "CursorExpandLines", dir |-> dir]

Insert(c) == [variant |-> "Insert", c |-> c]

KeymapEntry(keys, command, args, context) ==
    [keys |-> keys, command |-> command, args |-> args, context |-> context]

\* the arm "show_overlay"
show_overlay(val) ==
    IF ~val.args.some THEN Err(ExpectedArgument("show_overlay"))
    ELSE LET value == Get(val.args.val, "overlay")
         IN  IF ~value.some THEN Err(UnexpectedArgument)
             ELSE IF value.val.t = "String" /\ value.val.s = "goto"
             THEN Ok(OpenPrompt("Command"))
             ELSE Err(UnexpectedArgument)

\* show_panel accepting any string for the field panel
show_panel_any_string(val) ==
    IF ~val.args.some THEN Err(ExpectedArgument("show_panel"))
    ELSE LET value == Get(val.args.val, "panel")
         IN  IF ~value.some THEN Err(UnexpectedArgument)
             ELSE IF value.val.t = "String"
             THEN Ok(OpenPrompt("Find"))
             ELSE Err(UnexpectedArgument)

\* the arm "show_panel"
show_panel(val) ==
    IF ~val.args.some THEN Err(ExpectedArgument("show_panel"))
    ELSE LET value == Get(val.args.val, "panel")
         IN  IF ~value.some THEN Err(UnexpectedArgument)
             ELSE IF value.val.t = "String" /\ value.val.s = "find"
             THEN Ok(OpenPrompt("Find"))
             ELSE Err(UnexpectedArgument)

Command_from_keymap_entry(val) ==
    LET c == val.command
    IN  CASE c = "select_all" -> Ok(Unit("SelectAll"))
          [] c = "close" -> Ok(Unit("CloseCurrentView"))
          [] c = "copy" -> Ok(Unit("CopySelection"))
          [] c = "cut" -> Ok(Unit("CutSelection"))
          [] c = "paste" -> Ok(Unit("Paste"))
          [] c \in {"fue", "find_under_expand"} -> Ok(Unit("FindUnderExpand"))
          [] c \in {"fn", "find_next"} -> Ok(Unit("FindNext"))
          [] c \in {"fp", "find_prev"} -> Ok(Unit("FindPrev"))
          [] c = "hide_overlay" -> Ok(Unit("Cancel"))
          [] c \in {"s", "save"} -> Ok(Save(None))
          [] c \in {"q", "quit", "exit"} -> Ok(Unit("Quit"))
          [] c \in {"b", "back", "left_delete"} -> Ok(Unit("Back"))
          [] c \in {"d", "delete", "right_delete"} -> Ok(Unit("Delete"))
          [] c \in {"bn", "next-buffer", "next_view"} -> Ok(Unit("NextBuffer"))
          [] c \in {"bp", "prev-buffer", "prev_view"} -> Ok(Unit("PrevBuffer"))
          [] c = "undo" -> Ok(Unit("Undo"))
          [] c = "redo" -> Ok(Unit("Redo"))
          [] c \in {"ln", "line-numbers"} -> Ok(Unit("ToggleLineNumbers"))
          [] c \in {"op", "open-prompt"} -> Ok(OpenPrompt("Command"))
          [] c = "show_overlay" -> show_overlay(val)
          [] c = "show_panel" -> show_panel(val)
          [] c = "move" ->
                IF ~val.args.some THEN Err(ExpectedArgument("move"))
                ELSE LET cmd == DeRelativeMove(val.args.val)
                     IN  IF cmd.some THEN Ok(cmd.val) ELSE Err(UnexpectedArgument)
          [] c = "move_to" ->
                IF ~val.args.some THEN Err(ExpectedArgument("move_to"))
                ELSE LET cmd == DeAbsoluteMove(val.args.val)
                     IN  IF cmd.some THEN Ok(cmd.val) ELSE Err(UnexpectedArgument)
          [] c = "select_lines" ->
                IF ~val.args.some THEN Err(ExpectedArgument("select_lines"))
                ELSE LET cmd == DeExpandLinesDirection(val.args.val)
                     IN  IF cmd.some THEN Ok(CursorExpandLines(cmd.val))
                         ELSE Err(UnexpectedArgument)
          [] OTHER -> Err(UnknownCommand(c))

(***************************************************************************)
(* shellexpand::full(name), as called by Command::from_prompt for "open":  *)
(* environment variables first ($NAME, ${NAME}; a variable that is not set *)
(* is an error), then a leading tilde (~ or ~/...) by the home directory.  *)
(* The process environment is e: e.home is dirs::home_dir(), e.vars the    *)
(* variables that are set.                                                 *)
(***************************************************************************)
VarNameChars ==
    {"a", "b", "c", "d", "e", "f", "g", "h", "i", "j", "k", "l", "m", "n", "o",
     "p", "q", "r", "s", "t", "u", "v", "w", "x", "y", "z",
     "A", "B", "C", "D", "E", "F", "G", "H", "I", "J", "K", "L", "M", "N", "O",
     "P", "Q", "R", "S", "T", "U", "V", "W", "X", "Y", "Z",
     "0", "1", "2", "3", "4", "5", "6", "7", "8", "9", "_"}

StartsWith(s, prefix) ==
    Len(s) >= Len(prefix) /\ SubSeq(s, 1, Len(prefix)) = prefix

\* the length of the longest prefix of s made of variable-name characters
NameLen(s) ==
    CHOOSE n \in 0..Len(s) :
        /\ \A i \in 1..n : CharAt(s, i) \in VarNameChars
        /\ n < Len(s) => CharAt(s, n + 1) \notin VarNameChars

Expanded(s) == [ok |-> TRUE, s |-> s]

LookupError(var_name) == [ok |-> FALSE, var_name |-> var_name]

\* r with prefix put in front, an error left as it is
Prepend(prefix, r) == IF r.ok THEN Expanded(prefix \o r.s) ELSE r

RECURSIVE env_with_context(_, _)
env_with_context(input, vs) ==
    LET i == FindChar(input, "$")
        pre == SubSeq(input, 1, i - 1)
        rest == SubSeq(input, i, Len(input))
        next_char == IF Len(rest) >= 2 THEN CharAt(rest, 2) ELSE ""
        closing == FindChar(rest, "}")
        braced == SubSeq(rest, 3, closing - 1)
        bare == SubSeq(rest, 2, 1 + NameLen(SubSeq(rest, 2, Len(rest))))
    IN  IF i = 0 THEN Expanded(input)
        ELSE IF next_char = "{"
        THEN IF closing # 0
             THEN IF braced \in DOMAIN vs
                  THEN Prepend(pre \o vs[braced],
                               env_with_context(SubSeq(rest, closing + 1, Len(rest)), vs))
                  ELSE LookupError(braced)
             ELSE Prepend(pre \o "${", env_with_context(SubSeq(rest, 3, Len(rest)), vs))
        ELSE IF next_char \in VarNameChars
        THEN IF bare \in DOMAIN vs
             THEN Prepend(pre \o vs[bare],
                          env_with_context(SubSeq(rest, 2 + Len(bare), Len(rest)), vs))
             ELSE LookupError(bare)
        ELSE IF next_char = "$"
        THEN Prepend(pre \o "$", env_with_context(SubSeq(rest, 3, Len(rest)), vs))
        ELSE Prepend(pre \o "$", env_with_context(SubSeq(rest, 2, Len(rest)), vs))

tilde_with_context(input, home) ==
    LET after == SubSeq(input, 2, Len(input))
    IN  IF StartsWith(input, "~") /\ (after = "" \/ StartsWith(after, "/")) /\ home.some
        THEN home.val \o after
        ELSE input

shellexpand_full(input, e) ==
    LET r == env_with_context(input, e.vars)
    IN  IF ~r.ok THEN r
        ELSE IF ~StartsWith(input, "~") /\ StartsWith(r.s, "~") THEN r
        ELSE Expanded(tilde_with_context(r.s, e.home))

(***************************************************************************)
(* Command::from_prompt                                                    *)
(***************************************************************************)
\* the arm "move"
prompt_move(args) ==
    IF ~args.some THEN Err(ExpectedArgument("move"))
    ELSE RelativeMove_from_prompt(args.val)

\* prompt_move_to naming its own command when the remainder is missing
prompt_move_to_own_tag(args) ==
    IF ~args.some THEN Err(ExpectedArgument("move_to"))
    ELSE AbsoluteMove_from_prompt(args.val)

\* the arm "move_to"
prompt_move_to(args) ==
    IF ~args.some THEN Err(ExpectedArgument("move"))
    ELSE AbsoluteMove_from_prompt(args.val)

\* the arm "t" | "theme"
prompt_theme(args) ==
    IF ~args.some THEN Err(ExpectedArgument("theme"))
    ELSE Ok(SetTheme(args.val))

\* prompt_open taking the first token of the remainder as the filename
prompt_open_first_token(args, e) ==
    IF ~args.some THEN Ok(Open(None))
    ELSE LET name == Split(args.val)[1]
             expanded_name == shellexpand_full(name, e)
         IN  IF ~expanded_name.ok THEN Err(UnknownCommand(name))
             ELSE Ok(Open(Some(expanded_name.s)))

\* the arm "o" | "open"
prompt_open(args, e) ==
    IF ~args.some THEN Ok(Open(None))
    ELSE LET expanded_name == shellexpand_full(args.val, e)
         IN  IF ~expanded_name.ok THEN Err(UnknownCommand(args.val))
             ELSE Ok(Open(Some(expanded_name.s)))

\* the arm "f" | "find"
prompt_find(args) ==
    IF ~args.some THEN Err(ExpectedArgument("find"))
    ELSE FindConfig_from_prompt(args.val)

\* the last arm: everything else goes to the keymap translator, args dropped
prompt_default(command) ==
    Command_from_keymap_entry(KeymapEntry(<<>>, command, None, None))

\* Command_from_prompt handing the whole line to the last arm
Command_from_prompt_keeps_args(input, e) ==
    LET parts == Splitn2(input)
        cmd == parts[1]
        args == IF Len(parts) = 2 THEN Some(parts[2]) ELSE None
    IN  CASE cmd = "move" -> prompt_move(args)
          [] cmd = "move_to" -> prompt_move_to(args)
          [] cmd \in {"t", "theme"} -> prompt_theme(args)
          [] cmd \in {"o", "open"} -> prompt_open(args, e)
          [] cmd \in {"f", "find"} -> prompt_find(args)
          [] OTHER -> prompt_default(input)

Command_from_prompt(input, e) ==
    LET parts == Splitn2(input)
        cmd == parts[1]
        args == IF Len(parts) = 2 THEN Some(parts[2]) ELSE None
    IN  CASE cmd = "move" -> prompt_move(args)
          [] cmd = "move_to" -> prompt_move_to(args)
          [] cmd \in {"t", "theme"} -> prompt_theme(args)
          [] cmd \in {"o", "open"} -> prompt_open(args, e)
          [] cmd \in {"f", "find"} -> prompt_find(args)
          [] OTHER -> prompt_default(cmd)

(***************************************************************************)
(* RelativeMove::to_prompt, AbsoluteMove::to_prompt, Command::to_prompt    *)
(***************************************************************************)
RelativeMove_to_prompt(self) ==
    LET label ==
            CASE self.by = "characters" -> IF self.forward THEN "left" ELSE "right"
              [] self.by = "lines" -> IF self.forward THEN "down" ELSE "up"
              [] self.by = "words" -> IF self.forward THEN "wordleft" ELSE "wordright"
              [] self.by = "word_ends" -> IF self.forward THEN "wendleft" ELSE "wendright"
              [] self.by = "subwords" ->
                    IF self.forward THEN "subwordleft" ELSE "subwordright"
              [] self.by = "subword_ends" ->
                    IF self.forward THEN "subwendleft" ELSE "subwendright"
              [] self.by = "pages" -> IF self.forward THEN "page-down" ELSE "page-up"
    IN  "move " \o label \o (IF self.extend THEN " (e)xtend" ELSE "")

AbsoluteMove_to_prompt(self) ==
    LET label ==
            CASE self.to.point = "bof" -> "bof"
              [] self.to.point = "eof" -> "eof"
              [] self.to.point = "bol" -> "bol"
              [] self.to.point = "eol" -> "eol"
              [] self.to.point = "brackets" -> "brackets"
              [] self.to.point = "line" -> "<line>"
    IN  "move " \o label \o (IF self.extend THEN " (e)xtend" ELSE "")

\* Command_to_prompt echoing the path of Open
Command_to_prompt_open_path(self) ==
    IF self.variant = "Open" /\ self.file.some THEN "open " \o self.file.val
    ELSE CASE self.variant = "Cancel" -> "cancel"
           [] self.variant = "Quit" -> "quit"
           [] self.variant = "Save" -> "save"
           [] self.variant = "Back" -> "back"
           [] self.variant = "Delete" -> "delete"
           [] self.variant = "Open" -> "open"
           [] self.variant = "NextBuffer" -> "buffernext"
           [] self.variant = "PrevBuffer" -> "bufferprev"
           [] self.variant = "RelativeMove" -> RelativeMove_to_prompt(self)
           [] self.variant = "AbsoluteMove" -> AbsoluteMove_to_prompt(self)
           [] self.variant = "SetTheme" -> "settheme"
           [] self.variant = "ToggleLineNumbers" -> "togglelinenumbers"
           [] self.variant = "OpenPrompt" -> "open-prompt"
           [] self.variant = "Insert" -> "insert"
           [] self.variant = "Undo" -> "undo"
           [] self.variant = "Redo" -> "redo"
           [] self.variant = "Find" -> "find"
           [] self.variant = "FindNext" -> "findnext"
           [] self.variant = "FindPrev" -> "findprev"
           [] self.variant = "FindUnderExpand" -> "find_under_expand"
           [] self.variant = "CursorExpandLines" -> "cursor_expand_lines"
           [] self.variant = "CopySelection" -> "copy"
           [] self.variant = "Paste" -> "paste"
           [] self.variant = "CutSelection" -> "cut"
           [] self.variant = "CloseCurrentView" -> "close"
           [] self.variant = "SelectAll" -> "selecta_ll"

Command_to_prompt(self) ==
    CASE self.variant = "Cancel" -> "cancel"
      [] self.variant = "Quit" -> "quit"
      [] self.variant = "Save" -> "save"
      [] self.variant = "Back" -> "back"
      [] self.variant = "Delete" -> "delete"
      [] self.variant = "Open" -> "open"
      [] self.variant = "NextBuffer" -> "buffernext"
      [] self.variant = "PrevBuffer" -> "bufferprev"
      [] self.variant = "RelativeMove" -> RelativeMove_to_prompt(self)
      [] self.variant = "AbsoluteMove" -> AbsoluteMove_to_prompt(self)
      [] self.variant = "SetTheme" -> "settheme"
      [] self.variant = "ToggleLineNumbers" -> "togglelinenumbers"
      [] self.variant = "OpenPrompt" -> "open-prompt"
      [] self.variant = "Insert" -> "insert"
      [] self.variant = "Undo" -> "undo"
      [] self.variant = "Redo" -> "redo"
      [] self.variant = "Find" -> "find"
      [] self.variant = "FindNext" -> "findnext"
      [] self.variant = "FindPrev" -> "findprev"
      [] self.variant = "FindUnderExpand" -> "find_under_expand"
      [] self.variant = "CursorExpandLines" -> "cursor_expand_lines"
      [] self.variant = "CopySelection" -> "copy"
      [] self.variant = "Paste" -> "paste"
      [] self.variant = "CutSelection" -> "cut"
      [] self.variant = "CloseCurrentView" -> "close"
      [] self.variant = "SelectAll" -> "selecta_ll"

(***************************************************************************)
(* Inputs.                                                                 *)
(***************************************************************************)
\* tokens that may follow the first token of a movement argument
TrailTokens == {"", "x", "e"}

RECURSIVE Trails(_)
\* every " t1 t2 ... tk" with k <= n
Trails(n) ==
    IF n = 0 THEN {""}
    ELSE {""} \cup {" " \o t \o r : t \in TrailTokens, r \in Trails(n - 1)}

RelFirstTokens ==
    {"d", "down", "u", "up", "r", "right", "l", "left", "pd", "page-down",
     "pu", "page-up", "", "zz", "dd", "D", "bof", "42"}

RelativeArgs == {t \o r : t \in RelFirstTokens, r \in Trails(MaxExtra)}

AbsFirstTokens ==
    {"bof", "beginning-of-file", "eof", "end-of-file", "bol", "beginning-of-line",
     "eol", "end-of-line", "", "abc", "brackets", "BOF", "d",
     "0", "7", "42", "007", "+7", "+", "-1", "4x", "1.5", "00",
     "18446744073709551615", "18446744073709551616", "18446744073709551625",
     "28446744073709551615", "018446744073709551615", "99999999999999999999",
     "100000000000000000000"}

AbsoluteArgs == {t \o r : t \in AbsFirstTokens, r \in Trails(MaxExtra)}

FindAlphabet == {"c", "r", "w", "x", " "}

RECURSIVE StringsUpTo(_)
\* every string over FindAlphabet of length at most n
StringsUpTo(n) ==
    IF n = 0 THEN {""}
    ELSE {""} \cup {c \o s : c \in FindAlphabet, s \in StringsUpTo(n - 1)}

FindArgs == StringsUpTo(MaxLen)

\* the function with the one key k when v is present, with no key otherwise
Field(k, v) == IF v.some THEN k :> v.val ELSE <<>>

Scalars ==
    {Null, Bool(TRUE), PosInt("7"), JString("goto"), JString("find"),
     JString("other"), EmptyArray}

Absent(S) == {None} \cup {Some(v) : v \in S}

PanelValues == Scalars \cup {JString("Find"), JString("")}

ByValues ==
    {JString("lines"), JString("pages"), JString("words"), JString("zz"),
     PosInt("7"), Object("characters" :> Null)}

ToValues ==
    {JString("bof"), JString("eof"), JString("bol"), JString("eol"),
     JString("brackets"), JString("line"), JString("zz"), PosInt("7"),
     Object("line" :> PosInt("42")), Object("line" :> NegInt("-1")),
     Object("line" :> JString("42")), Object("bof" :> Null),
     Object("eof" :> Bool(TRUE))}

Values ==
    Scalars
    \cup {Object("overlay" :> v) : v \in Scalars}
    \cup {Object("panel" :> v) : v \in PanelValues}
    \cup {Object(("overlay" :> JString("goto")) @@ ("panel" :> JString("find")))}
    \cup {Object(Field("by", by) @@ Field("forward", forward) @@ Field("extend", extend)) :
            by \in Absent(ByValues),
            forward \in Absent({Bool(TRUE), Bool(FALSE), JString("yes")}),
            extend \in Absent({Bool(TRUE), PosInt("1")})}
    \cup {Object(Field("to", to) @@ Field("extend", extend)) :
            to \in Absent(ToValues), extend \in Absent({Bool(TRUE), PosInt("1")})}

KeymapNames ==
    {"select_all", "close", "copy", "cut", "paste", "fue", "find_under_expand",
     "fn", "find_next", "fp", "find_prev", "hide_overlay", "s", "save", "q",
     "quit", "exit", "b", "back", "left_delete", "d", "delete", "right_delete",
     "bn", "next-buffer", "next_view", "bp", "prev-buffer", "prev_view", "undo",
     "redo", "ln", "line-numbers", "op", "open-prompt", "show_overlay",
     "show_panel", "move", "move_to", "select_lines"}

OtherNames == {"", "zz", "Quit", "find", "open", "t"}

KeymapEntries ==
    {KeymapEntry(keys, command, args, None) :
        keys \in {<<>>, <<"ctrl+f">>},
        command \in KeymapNames \cup OtherNames,
        args \in Absent(Values)}

(***************************************************************************)
(* The state machine: each action is one call of a parser.                 *)
(***************************************************************************)
Init ==
    /\ call = [fn |-> "none"]
    /\ result = None
    /\ rendered = None

CallRelativeMoveFromPrompt ==
    /\ call.fn = "none"
    /\ \E args \in RelativeArgs :
            /\ call' = [fn |-> "RelativeMove::from_prompt", args |-> args]
            /\ result' = Some(RelativeMove_from_prompt(args))
            /\ UNCHANGED rendered

CallAbsoluteMoveFromPrompt ==
    /\ call.fn = "none"
    /\ \E args \in AbsoluteArgs :
            /\ call' = [fn |-> "AbsoluteMove::from_prompt", args |-> args]
            /\ result' = Some(AbsoluteMove_from_prompt(args))
            /\ UNCHANGED rendered

CallFindConfigFromPrompt ==
    /\ call.fn = "none"
    /\ \E args \in FindArgs :
            /\ call' = [fn |-> "FindConfig::from_prompt", args |-> args]
            /\ result' = Some(FindConfig_from_prompt(args))
            /\ UNCHANGED rendered

Envs ==
    {[home |-> home, vars |-> vs] :
        home \in {None, Some("/h")},
        vs \in {<<>>, "V" :> "v w", "V" :> "~"}}

PromptWords ==
    {"move", "move_to", "t", "theme", "o", "open", "f", "find"}
    \cup KeymapNames \cup {"", "zz", "Move", "fin", "openn", "x"}

PromptRests ==
    StringsUpTo(MaxRestLen)
    \cup {"d", "down e", "up x y", "zz", "pu ", "bof", "eol e", "42", "42 e",
          "42 e f", "abc", "0", "007 e", "+7", "42 ", "7  ", "4x e",
          "18446744073709551615 e", "18446744073709551616", "down", "up",
          "right", "left", "page-down", "page-up", "down x", "up x", "right x",
          "left x", "page-down x", "page-up x", "left extend", "beginning-of-file",
          "solarized dark", "base16", "cr needle text",
          "hello world", "xy z", "crw x", "crwc x", "my file.txt",
          "a  b ", "~", "~/a b", "~a", "a~", "~/", "$V", "${V}", "$V/a b",
          "${V}x", "$Vx", "$W", "${W}", "${}", "$", "$$", "$$V", "a$", "${V",
          "$ V", "~$V", "a/$V/~", "$V$V", "x ${V} $W"}

PromptLines == PromptWords \cup {w \o " " \o r : w \in PromptWords, r \in PromptRests}

CallCommandFromPrompt ==
    /\ call.fn = "none"
    /\ \E input \in PromptLines, e \in Envs :
            /\ call' = [fn |-> "Command::from_prompt", input |-> input, env |-> e]
            /\ result' = Some(Command_from_prompt(input, e))
            /\ UNCHANGED rendered

CallCommandFromKeymapEntry ==
    /\ call.fn = "none"
    /\ \E val \in KeymapEntries :
            /\ call' = [fn |-> "Command::from_keymap_entry", val |-> val]
            /\ result' = Some(Command_from_keymap_entry(val))
            /\ UNCHANGED rendered

PayloadFree ==
    {"Cancel", "Quit", "Back", "Delete", "NextBuffer", "PrevBuffer",
     "ToggleLineNumbers", "Undo", "Redo", "FindNext", "FindPrev",
     "FindUnderExpand", "CopySelection", "Paste", "CutSelection",
     "CloseCurrentView", "SelectAll"}

\* Command values, those no parser returns among them
Commands ==
    {Unit(v) : v \in PayloadFree}
    \cup {Save(view) : view \in {None, Some("1"), Some("2")}}
    \cup {Open(file) : file \in {None, Some("a"), Some("my file.txt")}}
    \cup {RelativeMove(by, forward, extend) :
            by \in RelativeMoveDistance, forward \in BOOLEAN, extend \in BOOLEAN}
    \cup {AbsoluteMove(to, extend) :
            to \in {bof, eof, bol, eol, brackets, line("0"), line("42")},
            extend \in BOOLEAN}
    \cup {SetTheme(theme) : theme \in {"", "base16", "solarized dark"}}
    \cup {OpenPrompt(mode) : mode \in {"Command", "Find"}}
    \cup {Insert(c) : c \in {"a", " "}}
    \cup {Find(search_term, c, r, w) :
            search_term \in {"", "x", "needle text"},
            c \in BOOLEAN, r \in BOOLEAN, w \in BOOLEAN}
    \cup {CursorExpandLines([forward |-> forward]) : forward \in BOOLEAN}

\* Command::to_prompt on a command value
CallCommandToPrompt ==
    /\ call.fn = "none"
    /\ \E self \in Commands :
            /\ call' = [fn |-> "Command::to_prompt", self |-> self]
            /\ rendered' = Some(Command_to_prompt(self))
            /\ UNCHANGED result

\* Command::to_prompt on the command a parser has returned
RenderResult ==
    /\ call.fn \notin {"none", "Command::to_prompt"}
    /\ result.some /\ result.val.ok
    /\ ~rendered.some
    /\ rendered' = Some(Command_to_prompt(result.val.cmd))
    /\ UNCHANGED <<call, result>>

Next ==
    \/ CallCommandToPrompt
    \/ RenderResult
    \/ CallCommandFromPrompt
    \/ CallCommandFromKeymapEntry
    \/ CallRelativeMoveFromPrompt
    \/ CallAbsoluteMoveFromPrompt
    \/ CallFindConfigFromPrompt

Spec == Init /\ [][Next]_vars

(***************************************************************************)
(* The properties.  They read the argument of the call and the result it   *)
(* returned; tokens are counted by the spaces of the argument.             *)
(***************************************************************************)
\* the number of space-delimited tokens of s
TokenCount(s) == 1 + Cardinality({i \in 1..Len(s) : CharAt(s, i) = " "})

\* the part of s before its first space, s itself when it has none
FirstToken(s) ==
    IF FindChar(s, " ") = 0 THEN s ELSE SubSeq(s, 1, FindChar(s, " ") - 1)

\* the part of s after its first space
AfterFirstSpace(s) == SubSeq(s, FindChar(s, " ") + 1, Len(s))

HasSpace(s) == FindChar(s, " ") # 0

Called(fn) == call.fn = fn /\ result.some

\* C1: FindConfig::from_prompt on a non-empty s: when s has a space and the
\* part p before the first space has at most 3 characters, all of them among
\* c, r, w, the search term is the part after that space and each flag is
\* set exactly when its letter occurs in p; otherwise the search term is s
\* and no flag is set.
C1_FindFlagCluster ==
    Called("FindConfig::from_prompt") /\ call.args # "" =>
        LET s == call.args
            p == FirstToken(s)
            cluster ==
                /\ HasSpace(s)
                /\ Len(p) <= 3
                /\ \A i \in 1..Len(p) : CharAt(p, i) \in {"c", "r", "w"}
            has(ch) == \E i \in 1..Len(p) : CharAt(p, i) = ch
        IN  IF cluster
            THEN result.val = Ok(Find(AfterFirstSpace(s), has("c"), has("r"), has("w")))
            ELSE result.val = Ok(Find(s, FALSE, FALSE, FALSE))

\* a three-letter cluster setting all three flags was accepted and stripped
C1_Witness ==
    /\ Called("FindConfig::from_prompt")
    /\ Len(FirstToken(call.args)) = 3
    /\ result.val = Ok(Find("x", TRUE, TRUE, TRUE))

\* C2: RelativeMove::from_prompt on one or two tokens: the first token is
\* looked up in the table d/down, u/up, r/right, l/left, pd/page-down,
\* pu/page-up; extend is set exactly when there is a second token, whatever
\* it is; any other first token t gives unknown-command(t).
C2_RelativeMoveTable ==
    Called("RelativeMove::from_prompt") /\ TokenCount(call.args) <= 2 =>
        LET t == FirstToken(call.args)
            extend == TokenCount(call.args) = 2
        IN  result.val =
                CASE t \in {"d", "down"} -> Ok(RelativeMove("lines", TRUE, extend))
                  [] t \in {"u", "up"} -> Ok(RelativeMove("lines", FALSE, extend))
                  [] t \in {"r", "right"} -> Ok(RelativeMove("characters", TRUE, extend))
                  [] t \in {"l", "left"} -> Ok(RelativeMove("characters", FALSE, extend))
                  [] t \in {"pd", "page-down"} -> Ok(RelativeMove("pages", TRUE, extend))
                  [] t \in {"pu", "page-up"} -> Ok(RelativeMove("pages", FALSE, extend))
                  [] OTHER -> Err(UnknownCommand(t))

\* a recognised token followed by a second token that is not an extend word
C2_Witness ==
    /\ Called("RelativeMove::from_prompt")
    /\ call.args = "page-up x"
    /\ result.val = Ok(RelativeMove("pages", FALSE, TRUE))

\* t is the decimal numeral of an unsigned integer that fits 64 bits
IsU64Numeral(t) ==
    /\ t # ""
    /\ \A i \in 1..Len(t) : CharAt(t, i) \in Digits
    /\ NumLeq(StripZeros(t), U64Max)

\* the prompt line is "move_to " followed by an unsigned integer and whatever
MoveToNumber ==
    /\ Called("Command::from_prompt")
    /\ StartsWith(call.input, "move_to ")
    /\ IsU64Numeral(FirstToken(AfterFirstSpace(call.input)))

\* C3 as stated: the prompt line "move_to n ...", whatever follows the
\* unsigned integer n, parses to AbsoluteMove{to: line(n), extend: false}.
C3_LineWhateverFollows ==
    MoveToNumber =>
        LET n == StripZeros(FirstToken(AfterFirstSpace(call.input)))
        IN  result.val = Ok(AbsoluteMove(line(n), FALSE))

\* C3 amended: the prompt line "move_to n" or "move_to n x", with at most
\* one token x after the unsigned 64-bit integer n, parses to
\* AbsoluteMove{to: line(n), extend: false}, whatever x is; with two or more
\* tokens after n the result is too-many-arguments("move_to", 2, N), N the
\* number of tokens of the argument.
C3_LineNeverExtends ==
    MoveToNumber =>
        LET rest == AfterFirstSpace(call.input)
            n == StripZeros(FirstToken(rest))
        IN  IF TokenCount(rest) <= 2
            THEN result.val = Ok(AbsoluteMove(line(n), FALSE))
            ELSE result.val = Err(TooManyArguments("move_to", 2, TokenCount(rest)))

\* a line number followed by one more token was parsed, extend not set
C3_Witness ==
    /\ MoveToNumber
    /\ call.input = "move_to 42 e"
    /\ result.val = Ok(AbsoluteMove(line("42"), FALSE))

\* C4: on the empty argument (zero tokens) RelativeMove::from_prompt returns
\* expected-argument("move") and AbsoluteMove::from_prompt returns
\* expected-argument("move_to").
C4_EmptyArgumentExpected ==
    /\ Called("RelativeMove::from_prompt") /\ call.args = "" =>
            result.val = Err(ExpectedArgument("move"))
    /\ Called("AbsoluteMove::from_prompt") /\ call.args = "" =>
            result.val = Err(ExpectedArgument("move_to"))

\* C5: on N > 2 tokens RelativeMove::from_prompt returns
\* too-many-arguments("move", 2, N) and AbsoluteMove::from_prompt returns
\* too-many-arguments("move_to", 2, N), whatever the tokens are.
C5_TooManyArguments ==
    /\ Called("RelativeMove::from_prompt") /\ TokenCount(call.args) > 2 =>
            result.val = Err(TooManyArguments("move", 2, TokenCount(call.args)))
    /\ Called("AbsoluteMove::from_prompt") /\ TokenCount(call.args) > 2 =>
            result.val = Err(TooManyArguments("move_to", 2, TokenCount(call.args)))

\* four tokens, an empty one among them, behind an unrecognised first token
C5_Witness ==
    /\ Called("AbsoluteMove::from_prompt")
    /\ call.args = "abc x  e"
    /\ result.val = Err(TooManyArguments("move_to", 2, 4))

\* C6: AbsoluteMove::from_prompt on one or two tokens: the first token is
\* looked up in the table bof/beginning-of-file, eof/end-of-file,
\* bol/beginning-of-line, eol/end-of-line, with extend set exactly when
\* there is a second token; a first token t that is neither in the table
\* nor an unsigned integer (digits, with or without a leading +) gives
\* unknown-command(t).
C6_AbsoluteMoveTable ==
    Called("AbsoluteMove::from_prompt") /\ TokenCount(call.args) <= 2 =>
        LET t == FirstToken(call.args)
            extend == TokenCount(call.args) = 2
            digits == IF StartsWith(t, "+") THEN SubSeq(t, 2, Len(t)) ELSE t
            integer == digits # "" /\ \A i \in 1..Len(digits) : CharAt(digits, i) \in Digits
        IN  CASE t \in {"bof", "beginning-of-file"} -> result.val = Ok(AbsoluteMove(bof, extend))
              [] t \in {"eof", "end-of-file"} -> result.val = Ok(AbsoluteMove(eof, extend))
              [] t \in {"bol", "beginning-of-line"} -> result.val = Ok(AbsoluteMove(bol, extend))
              [] t \in {"eol", "end-of-line"} -> result.val = Ok(AbsoluteMove(eol, extend))
              [] OTHER -> ~integer => result.val = Err(UnknownCommand(t))

\* a long-form target followed by a second token
C6_Witness ==
    /\ Called("AbsoluteMove::from_prompt")
    /\ call.args = "end-of-line x"
    /\ result.val = Ok(AbsoluteMove(eol, TRUE))

\* the command word of the prompt line of the call
Word == FirstToken(call.input)

\* C7: Command::from_prompt on a line that is only a command word returns
\* expected-argument("move") for "move" and for "move_to",
\* expected-argument("theme") for "t" and "theme", expected-argument("find")
\* for "f" and "find"; with a remainder r, "t"/"theme" return SetTheme(r)
\* with r verbatim and "move", "move_to", "f"/"find" return what their
\* sub-grammar returns on the unsplit r.
C7_PromptArgumentWords ==
    Called("Command::from_prompt") =>
        LET r == AfterFirstSpace(call.input)
        IN  IF ~HasSpace(call.input)
            THEN /\ Word = "move" => result.val = Err(ExpectedArgument("move"))
                 /\ Word = "move_to" => result.val = Err(ExpectedArgument("move"))
                 /\ Word \in {"t", "theme"} => result.val = Err(ExpectedArgument("theme"))
                 /\ Word \in {"f", "find"} => result.val = Err(ExpectedArgument("find"))
            ELSE /\ Word = "move" => result.val = RelativeMove_from_prompt(r)
                 /\ Word = "move_to" => result.val = AbsoluteMove_from_prompt(r)
                 /\ Word \in {"t", "theme"} => result.val = Ok(SetTheme(r))
                 /\ Word \in {"f", "find"} => result.val = FindConfig_from_prompt(r)

\* the bare word "move_to" was answered with the tag "move"
C7_Witness ==
    /\ Called("Command::from_prompt")
    /\ call.input = "move_to"
    /\ result.val = Err(ExpectedArgument("move"))

\* C8: for a command word w other than move, move_to, t, theme, o, open, f,
\* find, Command::from_prompt returns what Command::from_keymap_entry
\* returns for {keys: empty, command: w, args: none, context: none},
\* whatever follows w; a word outside the keymap name table gives
\* unknown-command(w).
C8_PromptFallsBackToKeymap ==
    Called("Command::from_prompt")
        /\ Word \notin {"move", "move_to", "t", "theme", "o", "open", "f", "find"} =>
            /\ result.val = Command_from_keymap_entry(KeymapEntry(<<>>, Word, None, None))
            /\ Word \notin KeymapNames => result.val = Err(UnknownCommand(Word))

\* a keymap name typed with a remainder, which was dropped
C8_Witness ==
    /\ Called("Command::from_prompt")
    /\ call.input = "quit my file.txt"
    /\ result.val = Ok(Unit("Quit"))

\* C9: Command::from_keymap_entry with args absent returns
\* expected-argument(name) for each name of move, move_to, select_lines,
\* show_overlay, show_panel; with args present, show_overlay returns
\* OpenPrompt(Command) exactly when the field overlay is the string "goto"
\* and show_panel returns OpenPrompt(Find) exactly when the field panel is
\* the string "find", and unexpected-argument otherwise.
C9_KeymapArguments ==
    Called("Command::from_keymap_entry") =>
        LET name == call.val.command
            args == call.val.args
            field(key, s) ==
                /\ args.val.t = "Object"
                /\ key \in DOMAIN args.val.o
                /\ args.val.o[key].t = "String"
                /\ args.val.o[key].s = s
        IN  IF ~args.some
            THEN name \in {"move", "move_to", "select_lines", "show_overlay", "show_panel"}
                    => result.val = Err(ExpectedArgument(name))
            ELSE /\ name = "show_overlay" =>
                        result.val = IF field("overlay", "goto")
                                     THEN Ok(OpenPrompt("Command"))
                                     ELSE Err(UnexpectedArgument)
                 /\ name = "show_panel" =>
                        result.val = IF field("panel", "find")
                                     THEN Ok(OpenPrompt("Find"))
                                     ELSE Err(UnexpectedArgument)

\* show_panel was given a panel that is a string, but not "find"
C9_Witness ==
    /\ Called("Command::from_keymap_entry")
    /\ call.val.command = "show_panel"
    /\ call.val.args = Some(Object("panel" :> JString("goto")))
    /\ result.val = Err(UnexpectedArgument)

\* C10: for the command words "o" and "open": with no remainder the result
\* is Open(None); a remainder r is one filename, spaces included: when r
\* has nothing to expand (no $, no leading ~) the result is Open(Some(r)),
\* and when the expansion of r fails the result is unknown-command(r).
C10_OpenFilename ==
    Called("Command::from_prompt") /\ Word \in {"o", "open"} =>
        LET r == AfterFirstSpace(call.input)
        IN  IF ~HasSpace(call.input) THEN result.val = Ok(Open(None))
            ELSE /\ FindChar(r, "$") = 0 /\ ~StartsWith(r, "~") =>
                        result.val = Ok(Open(Some(r)))
                 /\ ~shellexpand_full(r, call.env).ok =>
                        result.val = Err(UnknownCommand(r))

\* a filename with a space in it was opened as one filename
C10_Witness ==
    /\ Called("Command::from_prompt")
    /\ call.input = "open my file.txt"
    /\ result.val = Ok(Open(Some("my file.txt")))

\* the command whose label is in rendered
Self == IF call.fn = "Command::to_prompt" THEN call.self ELSE result.val.cmd

\* every command value of the same variant as Self renders to the label of Self
SameLabelAcrossPayloads ==
    \A other \in Commands :
        other.variant = Self.variant => Command_to_prompt(other) = rendered.val

\* C11 as stated: for every payload-bearing variant (relative move, absolute
\* move, open, set-theme, find, open-prompt, insert, cursor-expand-lines,
\* save) Command::to_prompt returns a label fixed by the variant: two values
\* of one variant that differ only in payload render to the same label.
C11_LabelIgnoresPayload ==
    rendered.some
        /\ Self.variant \in {"RelativeMove", "AbsoluteMove", "Open", "SetTheme", "Find",
                              "OpenPrompt", "Insert", "CursorExpandLines", "Save"} =>
            SameLabelAcrossPayloads

\* C11 amended: for the payload-bearing variants open, set-theme, find,
\* open-prompt, insert, cursor-expand-lines and save, Command::to_prompt
\* returns a label fixed by the variant, whatever the payload.  A relative or
\* absolute move renders its payload: "move ", a label for the direction or
\* target, and " (e)xtend" when extend is set; of the payload of a move only
\* the number of a line-number target is left out (it renders as "<line>").
C11_LabelIgnoresPayloadButMoves ==
    rendered.some =>
        /\ Self.variant \in {"Open", "SetTheme", "Find", "OpenPrompt", "Insert",
                              "CursorExpandLines", "Save"} => SameLabelAcrossPayloads
        /\ Self.variant = "AbsoluteMove" /\ Self.to.point = "line" =>
                rendered.val = "move <line>" \o (IF Self.extend THEN " (e)xtend" ELSE "")

\* an Open carrying a path was rendered, and the path is not in the label
C11_Witness ==
    /\ call.fn = "Command::to_prompt"
    /\ call.self = Open(Some("my file.txt"))
    /\ rendered = Some("open")

\* C12: for every long-form token t of the relative-move parse table (down,
\* up, right, left, page-down, page-up), rendering the command parsed from
\* the prompt line "move t" yields "move t", and rendering the command
\* parsed from "move t x" yields "move t (e)xtend".
C12_MoveRendersAsParsed ==
    Called("Command::from_prompt") /\ rendered.some /\ Word = "move"
        /\ HasSpace(call.input) =>
            LET r == AfterFirstSpace(call.input)
                t == FirstToken(r)
            IN  t \in {"down", "up", "right", "left", "page-down", "page-up"}
                    /\ TokenCount(r) <= 2 =>
                        rendered.val =
                            "move " \o t \o (IF TokenCount(r) = 2 THEN " (e)xtend" ELSE "")

\* C13: for every prompt line whose command word is "f" or "find",
\* Command::from_prompt returns expected-argument("find") or a Find whose
\* search_term has at least one character.
C13_SearchTermNotEmpty ==
    Called("Command::from_prompt") /\ Word \in {"f", "find"} =>
        \/ result.val = Err(ExpectedArgument("find"))
        \/ /\ result.val.ok
           /\ result.val.cmd.variant = "Find"
           /\ result.val.cmd.search_term # ""

====
